---- MODULE Spec2Model ----
(***************************************************************************)
(* A model of urnai's DeepQLearning (src/urnai/models/algorithms/dql.py):  *)
(* the experience memory, the learn paths and their Bellman targets, and   *)
(* the epsilon-greedy action selection with excluded actions.              *)
(*                                                                         *)
(* Numbers are integers: states are state vectors of state_size 1 whose    *)
(* component is in 0..MaxState (0 is numpy.zeros(state_size)), rewards,    *)
(* action values and gamma are small integers, and epsilon is a fixed-     *)
(* point number in units of 1/EpsScale.  Sequences are 1-based: action a   *)
(* (a Python index) is position a + 1 of an action-value row.              *)
(***************************************************************************)
EXTENDS Integers, Sequences, FiniteSets

VARIABLES
    use_memory,                 \* self.use_memory
    memory_maxlen,              \* self.memory_maxlen (deque maxlen)
    min_memory_size,            \* self.min_memory_size
    batch_size,                 \* self.batch_size
    gamma,                      \* self.gamma
    per_episode_epsilon_decay,  \* self.per_episode_epsilon_decay
    epsilon_linear_decay,       \* self.epsilon_linear_decay
    memory,                     \* self.memory: sequence of transitions, oldest first
    dnn,                        \* self.dnn: the backend's parameters, as its output per state
    epsilon_greedy,             \* self.epsilon_greedy
    observation,                \* the state the driver currently observes
    excluded_actions,           \* the actions the environment currently excludes
    op,                         \* the last call: "init", "learn", "memorize", "memory_learn",
                                \* "no_memory_learn", "save_extra", "load_extra", "choose_action", "predict",
                                \* "ep_reset", "get_reward", "reset"
    arg,                        \* the arguments of the last call
    outcome,                    \* how the last call ended: "return", an exception name, "loop"; "sampling" inside the loop
    ret,                        \* the value the last call returned (NoValue when none)
    calls,                      \* the backend calls the last call made, in order
    batch,                      \* the batch the last learn call sampled
    history,                    \* the transitions handed to the object, in order (SpecLive: the latest MaxLearn)
    _previous_killed_unit_score,     \* KilledUnitsReward._previous_killed_unit_score
    _previous_killed_building_score  \* KilledUnitsReward._previous_killed_building_score

vars == <<use_memory, memory_maxlen, min_memory_size, batch_size, gamma,
          per_episode_epsilon_decay, epsilon_linear_decay, memory, dnn,
          epsilon_greedy, observation, excluded_actions, op, arg, outcome, ret, calls, batch, history,
          _previous_killed_unit_score, _previous_killed_building_score>>

\* The fields of the KilledUnitsReward object
reward_builder == <<_previous_killed_unit_score, _previous_killed_building_score>>

config == <<use_memory, memory_maxlen, min_memory_size, batch_size, gamma,
            per_episode_epsilon_decay, epsilon_linear_decay>>

----------------------------------------------------------------------------
(* Bounds and domains *)

action_size == 3
MaxState == 1
MaxReward == 1
MaxQ == 1
MaxGamma == 2
MaxMem == 3
MaxBatch == 2
MaxLearn == 4
EpsScale == 4

NoneState == -1
NoValue == NoneState

ZeroState == 0
States == 0..MaxState
Actions == 0..(action_size - 1)
Rewards == 0..MaxReward
Transitions == States \X Actions \X Rewards \X (States \cup {NoneState}) \X BOOLEAN

\* The transitions the caller hands over, one of each kind learn accepts:
\* one with a next state, a terminal one without, and one without a next
\* state although done is false (learn checks neither).
DriverTransitions ==
    { <<0, 0, 0, 1, FALSE>>, <<1, 0, 1, NoneState, TRUE>>,
      <<1, 1, 1, NoneState, FALSE>> }

QRows == [1..action_size -> 0..MaxQ]

NoArg == [t |-> <<>>, is_testing |-> FALSE, u |-> NoValue]

----------------------------------------------------------------------------
(* The value-function backend (self.dnn) *)

\* A backend whose output for state s is bias + s * weights, weights = 1, 2, ...
InitNet(bias) == [s \in States |-> [i \in 1..action_size |-> bias[i] + s * i]]

ZeroRow == [i \in 1..action_size |-> 0]

OneHot(k) == [i \in 1..action_size |-> IF i = k THEN MaxQ ELSE 0]

\* The output for a batch of states (a single state is a batch of one row).
get_output(net, states) == [i \in 1..Len(states) |-> net[states[i]]]

\* One update per row, in row order, fitting the output for the row's state to
\* the row's target.
RECURSIVE update(_, _, _)
update(net, states, targets) ==
    IF states = <<>> THEN net
    ELSE update([net EXCEPT ![Head(states)] = Head(targets)],
                Tail(states), Tail(targets))

GetOutputCall(x) == [f |-> "get_output", x |-> x, y |-> <<>>]
UpdateCall(x, y) == [f |-> "update", x |-> x, y |-> y]

----------------------------------------------------------------------------
(* The exploration schedule (LearningModel.decay_epsilon) *)

epsilon_start == EpsScale
epsilon_min == EpsScale \div 4
epsilon_linear_step == EpsScale \div 4

Max2(a, b) == IF a >= b THEN a ELSE b


decay_epsilon_unclamped(e) ==
    IF epsilon_linear_decay
    THEN e - epsilon_linear_step
    ELSE (e * 3) \div 4

decay_epsilon(e) ==
    IF epsilon_linear_decay
    THEN Max2(epsilon_min, e - epsilon_linear_step)
    ELSE Max2(epsilon_min, (e * 3) \div 4)

----------------------------------------------------------------------------
(* Experience memory *)

\* deque(maxlen = memory_maxlen).append: the oldest entry leaves when full.
memorize_unbounded(mem, t) == Append(mem, t)

memorize_evict_newest(mem, t) ==
    IF Len(mem) >= memory_maxlen
    THEN Append(SubSeq(mem, 1, Len(mem) - 1), t)
    ELSE Append(mem, t)


memorize_flush(mem, t) ==
    IF Len(mem) >= memory_maxlen THEN <<t>> ELSE Append(mem, t)

memorize(mem, t) ==
    LET m == Append(mem, t)
    IN  IF Len(m) > memory_maxlen THEN Tail(m) ELSE m


Samples_with_replacement(n, k) == [1..k -> 1..n]

\* random.sample(population of n, k): k distinct positions, in any order.
Samples(n, k) ==
    { idx \in [1..k -> 1..n] : \A i, j \in 1..k : i # j => idx[i] # idx[j] }

----------------------------------------------------------------------------
(* Targets *)

\* numpy.amax of a row
amax(row) ==
    CHOOSE m \in { row[i] : i \in 1..Len(row) } : \A i \in 1..Len(row) : row[i] <= m

\* The target row of one batch entry: the current output with the entry of
\* the action taken replaced.
target_q_ignore_done(current_q, action, reward, done, q_next) ==
    [current_q EXCEPT ![action + 1] = reward + gamma * amax(q_next)]

target_q(current_q, action, reward, done, q_next) ==
    [current_q EXCEPT ![action + 1] =
        IF done THEN reward ELSE reward + gamma * amax(q_next)]

__maxq(state) == amax(get_output(dnn, <<state>>)[1])

expected_q_undiscounted(r, s_, done) ==
    IF done THEN r ELSE r + __maxq(s_)

expected_q(r, s_, done) ==
    IF done THEN r ELSE r + gamma * __maxq(s_)

----------------------------------------------------------------------------
(* learn *)

no_backend_call ==
    /\ outcome' = "return"
    /\ batch' = <<>>
    /\ calls' = <<>>
    /\ dnn' = dnn

\* Lines 134-162: evaluate the batch and its next states, build the targets,
\* update the backend.  A state is one value here, so numpy.squeeze (lines
\* 135, 138), which only reshapes the stacked arrays, has nothing to do.
fit_batch(b) ==
    LET states == [i \in 1..Len(b) |-> b[i][1]]
        next_states == [i \in 1..Len(b) |->
                           IF b[i][4] = NoneState THEN ZeroState ELSE b[i][4]]
        q_s_a == get_output(dnn, states)
        q_s_a_d == get_output(dnn, next_states)
        target_q_values == [i \in 1..Len(b) |->
                               target_q(q_s_a[i], b[i][2], b[i][3], b[i][5], q_s_a_d[i])]
    IN  /\ outcome' = "return"
        /\ batch' = b
        /\ calls' = << GetOutputCall(states), GetOutputCall(next_states),
                       UpdateCall(states, target_q_values) >>
        /\ dnn' = update(dnn, states, target_q_values)


replay_short_sample ==
    LET k == IF batch_size > Len(memory') THEN Len(memory') ELSE batch_size
    IN  \E idx \in Samples(Len(memory'), k) :
            fit_batch([i \in 1..k |-> memory'[idx[i]]])

\* Line 133 on: random.sample raises ValueError when the sample is larger
\* than the memory.
replay ==
    IF batch_size > Len(memory')
    THEN /\ outcome' = "ValueError"
         /\ batch' = <<>>
         /\ calls' = <<>>
         /\ dnn' = dnn
    ELSE \E idx \in Samples(Len(memory'), batch_size) :
             fit_batch([i \in 1..batch_size |-> memory'[idx[i]]])

memory_learn_no_gate(s, a, r, s_, done) ==
    /\ memory' = memorize(memory, <<s, a, r, s_, done>>)
    /\ replay

memory_learn(s, a, r, s_, done) ==
    /\ memory' = memorize(memory, <<s, a, r, s_, done>>)
    /\ IF Len(memory') < min_memory_size
       THEN no_backend_call
       ELSE replay


no_memory_learn_skip_terminal(s, a, r, s_, done) ==
    LET q_s_a == get_output(dnn, <<s>>)
        target == [q_s_a EXCEPT ![1][a + 1] = expected_q(r, s_, done)]
    IN  /\ memory' = memory
        /\ batch' = <<>>
        /\ outcome' = "return"
        /\ calls' = IF done
                    THEN << GetOutputCall(<<s>>) >>
                    ELSE << GetOutputCall(<<s>>), GetOutputCall(<<s_>>),
                            UpdateCall(<<s>>, target) >>
        /\ dnn' = IF done THEN dnn ELSE update(dnn, <<s>>, target)

\* The backend cannot evaluate None: with done false and no next state,
\* __maxq raises inside the backend.
no_memory_learn(s, a, r, s_, done) ==
    LET q_s_a == get_output(dnn, <<s>>)
    IN  /\ memory' = memory
        /\ batch' = <<>>
        /\ IF ~done /\ s_ = NoneState
           THEN /\ outcome' = "BackendError"
                /\ calls' = << GetOutputCall(<<s>>), GetOutputCall(<<s_>>) >>
                /\ dnn' = dnn
           ELSE LET target == [q_s_a EXCEPT ![1][a + 1] = expected_q(r, s_, done)]
                IN  /\ outcome' = "return"
                    /\ calls' = << GetOutputCall(<<s>>) >>
                                 \o (IF done THEN <<>> ELSE << GetOutputCall(<<s_>>) >>)
                                 \o << UpdateCall(<<s>>, target) >>
                    /\ dnn' = update(dnn, <<s>>, target)

\* Lines 117-126: what one learn call does to the object
learn_call(s, a, r, s_, done) ==
    /\ op' = "learn"
    /\ arg' = [NoArg EXCEPT !.t = <<s, a, r, s_, done>>]
    /\ ret' = NoValue
    /\ IF use_memory
       THEN memory_learn(s, a, r, s_, done)
       ELSE no_memory_learn(s, a, r, s_, done)
    /\ epsilon_greedy' =
           IF outcome' = "return" /\ ~per_episode_epsilon_decay
           THEN decay_epsilon(epsilon_greedy)
           ELSE epsilon_greedy
    /\ UNCHANGED <<reward_builder, config, observation, excluded_actions>>

learn(s, a, r, s_, done) ==
    /\ learn_call(s, a, r, s_, done)
    /\ history' = Append(history, <<s, a, r, s_, done>>)

----------------------------------------------------------------------------
(* predict and choose_action *)

\* numpy.argmax: the index (from 0) of the first largest entry
argmax(row) ==
    (CHOOSE i \in 1..Len(row) :
        /\ \A j \in 1..Len(row) : row[j] <= row[i]
        /\ \A j \in 1..(i - 1) : row[j] < row[i]) - 1

\* numpy.delete(row, idx): the row without the entry at index idx (from 0)
delete(row, idx) ==
    [i \in 1..(Len(row) - 1) |-> IF i <= idx THEN row[i] ELSE row[i + 1]]

\* Lines 203-212: while the index is excluded, delete its entry and take the
\* argmax of what is left; numpy.argmax raises ValueError on an empty row.
RECURSIVE exclusion_loop(_, _)
exclusion_loop(q_values, excluded) ==
    IF q_values = <<>>
    THEN [outcome |-> "ValueError", ret |-> NoValue]
    ELSE LET action_idx == argmax(q_values)
         IN  IF action_idx \in excluded
             THEN exclusion_loop(delete(q_values, action_idx), excluded)
             ELSE [outcome |-> "return", ret |-> action_idx]

predict_no_exclusion(state, excluded) ==
    [outcome |-> "return", ret |-> argmax(get_output(dnn, <<state>>)[1])]

predict(state, excluded) ==
    exclusion_loop(get_output(dnn, <<state>>)[1], excluded)

exploit(state, excluded) ==
    LET p == predict(state, excluded)
    IN  /\ outcome' = p.outcome
        /\ ret' = p.ret
        /\ calls' = << GetOutputCall(<<state>>) >>

\* Lines 192-197: random.choice until the action is not excluded; the loop
\* has no exit when every action is excluded.
explore(excluded) ==
    /\ calls' = <<>>
    /\ IF Actions \subseteq excluded
       THEN /\ outcome' = "loop"
            /\ ret' = NoValue
       ELSE \E random_action \in Actions \ excluded :
                /\ outcome' = "return"
                /\ ret' = random_action

\* numpy.random.rand() is in [0, 1): u / EpsScale with u < EpsScale
epsilon_greedy_choice(state, excluded) ==
    \E u \in 0..(EpsScale - 1) :
        /\ arg' = [NoArg EXCEPT !.u = u]
        /\ IF u <= epsilon_greedy
           THEN explore(excluded)
           ELSE exploit(state, excluded)

choose_action_ignore_testing(state, excluded, is_testing) ==
    /\ op' = "choose_action"
    /\ \E u \in 0..(EpsScale - 1) :
           /\ arg' = [NoArg EXCEPT !.is_testing = is_testing, !.u = u]
           /\ IF u <= epsilon_greedy
              THEN explore(excluded)
              ELSE exploit(state, excluded)
    /\ UNCHANGED <<reward_builder, config, memory, dnn, epsilon_greedy, observation,
                   excluded_actions, batch, history>>


choose_action_excludes_choice(state, excluded, is_testing) ==
    /\ op' = "choose_action"
    /\ IF is_testing
       THEN /\ arg' = [NoArg EXCEPT !.is_testing = TRUE]
            /\ exploit(state, excluded)
       ELSE epsilon_greedy_choice(state, excluded)
    /\ excluded_actions' = IF outcome' = "return"
                           THEN excluded \cup {ret'}
                           ELSE excluded
    /\ UNCHANGED <<reward_builder, config, memory, dnn, epsilon_greedy, observation,
                   batch, history>>

choose_action(state, excluded, is_testing) ==
    /\ op' = "choose_action"
    /\ IF is_testing
       THEN /\ arg' = [NoArg EXCEPT !.is_testing = TRUE]
            /\ exploit(state, excluded)
       ELSE epsilon_greedy_choice(state, excluded)
    /\ UNCHANGED <<reward_builder, config, memory, dnn, epsilon_greedy, observation,
                   excluded_actions, batch, history>>

----------------------------------------------------------------------------
(* The learning specification: a driver feeding transitions to learn *)


----------------------------------------------------------------------------
(* KilledUnitsReward (agents/rewards/sc2.py) *)


\* The largest cumulative score an observation carries
MaxScore == 3

Scores == 0..MaxScore

_kill_unit_reward == 1
_kill_building_reward == 2

\* KilledUnitsReward.__init__
KilledUnitsReward_init ==
    /\ _previous_killed_unit_score = 0
    /\ _previous_killed_building_score = 0

\* KilledUnitsReward.reset
reset ==
    /\ _previous_killed_unit_score' = 0
    /\ _previous_killed_building_score' = 0

get_reward_no_reset(current_killed_unit_score, current_killed_building_score, reward, done) ==
    /\ op' = "get_reward"
    /\ arg' = [NoArg EXCEPT !.t = <<current_killed_unit_score,
                                   current_killed_building_score, reward, done>>]
    /\ outcome' = "return"
    /\ ret' = (IF current_killed_unit_score > _previous_killed_unit_score
               THEN _kill_unit_reward ELSE 0)
              + (IF current_killed_building_score > _previous_killed_building_score
                 THEN _kill_building_reward ELSE 0)
    /\ _previous_killed_unit_score' = current_killed_unit_score
    /\ _previous_killed_building_score' = current_killed_building_score
    /\ UNCHANGED <<config, memory, dnn, epsilon_greedy, observation,
                   excluded_actions, calls, batch, history>>

\* get_reward(obs, reward, done), with obs.score_cumulative[5] and [6] as
\* the two current scores: the reward is built against the previous scores,
\* the current scores are stored, and done resets them.
get_reward(current_killed_unit_score, current_killed_building_score, reward, done) ==
    LET new_reward ==
            (IF current_killed_unit_score > _previous_killed_unit_score
             THEN _kill_unit_reward ELSE 0)
            + (IF current_killed_building_score > _previous_killed_building_score
               THEN _kill_building_reward ELSE 0)
    IN  /\ op' = "get_reward"
        /\ arg' = [NoArg EXCEPT !.t = <<current_killed_unit_score,
                                       current_killed_building_score, reward, done>>]
        /\ outcome' = "return"
        /\ ret' = new_reward
        /\ IF done
           THEN reset
           ELSE /\ _previous_killed_unit_score' = current_killed_unit_score
                /\ _previous_killed_building_score' = current_killed_building_score
        /\ UNCHANGED <<config, memory, dnn, epsilon_greedy, observation,
                       excluded_actions, calls, batch, history>>

Init ==
    /\ use_memory \in BOOLEAN
    /\ IF use_memory
       THEN /\ memory_maxlen \in 1..MaxMem
            /\ min_memory_size \in 1..MaxMem
            /\ batch_size \in 1..MaxBatch
       ELSE /\ memory_maxlen = 0
            /\ min_memory_size = 0
            /\ batch_size = 1
    /\ gamma = 1
    /\ per_episode_epsilon_decay \in BOOLEAN
    /\ epsilon_linear_decay = FALSE
    /\ memory = <<>>
    /\ dnn = InitNet(ZeroRow)
    /\ epsilon_greedy = epsilon_start
    /\ observation = ZeroState
    /\ excluded_actions = {}
    /\ KilledUnitsReward_init
    /\ op = "init"
    /\ arg = NoArg
    /\ outcome = "return"
    /\ ret = NoValue
    /\ calls = <<>>
    /\ batch = <<>>
    /\ history = <<>>

Learn ==
    /\ Len(history) < MaxLearn
    /\ \E t \in DriverTransitions : learn(t[1], t[2], t[3], t[4], t[5])

Next == Learn

Spec == Init /\ [][Next]_vars

----------------------------------------------------------------------------
(* The target specification: one learn call with any transition, from a    *)
(* memory one short of the batch size and a backend with distinct rows.    *)

SeqsOfLen(S, n) == [1..n -> S]

InitTarget ==
    /\ use_memory \in BOOLEAN
    /\ IF use_memory
       THEN /\ batch_size \in 1..MaxBatch
            /\ memory_maxlen = batch_size
            /\ min_memory_size = batch_size
            /\ memory \in SeqsOfLen(DriverTransitions, batch_size - 1)
       ELSE /\ batch_size = 1
            /\ memory_maxlen = 0
            /\ min_memory_size = 0
            /\ memory = <<>>
    /\ gamma \in 0..MaxGamma
    /\ per_episode_epsilon_decay = FALSE
    /\ epsilon_linear_decay = FALSE
    /\ dnn \in { InitNet(OneHot(k)) : k \in 1..action_size }
    /\ epsilon_greedy = epsilon_start
    /\ observation = ZeroState
    /\ excluded_actions = {}
    /\ KilledUnitsReward_init
    /\ op = "init"
    /\ arg = NoArg
    /\ outcome = "return"
    /\ ret = NoValue
    /\ calls = <<>>
    /\ batch = <<>>
    /\ history = memory

LearnAny ==
    /\ op = "init"
    /\ \E t \in Transitions : learn(t[1], t[2], t[3], t[4], t[5])

NextTarget == LearnAny

SpecTarget == InitTarget /\ [][NextTarget]_vars

----------------------------------------------------------------------------
(* Claims about the experience memory and the memory gate (Spec) *)

Min2(a, b) == IF a <= b THEN a ELSE b

\* C1: with use_memory, the memory never holds more than memory_maxlen
\* transitions, whatever learn calls were made.
C1_MemoryBounded ==
    use_memory => Len(memory) <= memory_maxlen

C1_Witness ==
    /\ use_memory
    /\ Len(memory) = memory_maxlen
    /\ Len(history) > memory_maxlen

\* C2: after k transitions were stored, the memory holds exactly the last
\* min(k, memory_maxlen) of them, in insertion order.
C2_LastStoredInOrder ==
    use_memory =>
        LET k == Len(history)
            n == Min2(k, memory_maxlen)
        IN  memory = SubSeq(history, k - n + 1, k)

C2_Witness ==
    /\ use_memory
    /\ memory_maxlen = 3
    /\ Len(history) = 4
    /\ history[1] # history[4]
    /\ history[2] # history[3]
    /\ memory = << history[2], history[3], history[4] >>

\* C3: a learn call with memory whose store leaves fewer than
\* min_memory_size transitions stores the transition, makes no backend call
\* and leaves the backend's parameters as they were.
C3_GateClosedNoBackendCall ==
    [][ (op' = "learn" /\ use_memory /\ Len(memory') < min_memory_size)
        => /\ memory' # <<>>
           /\ memory'[Len(memory')] = arg'.t
           /\ calls' = <<>>
           /\ dnn' = dnn
           /\ outcome' = "return" ]_vars

C3_Witness ==
    /\ op = "learn"
    /\ use_memory
    /\ Len(memory) < min_memory_size
    /\ Len(memory) >= batch_size
    /\ calls = <<>>

\* C4 (as claimed): for every configuration, the sample learn draws is never
\* larger than the memory, so sampling never fails.
C4_SamplingNeverFails ==
    (op = "learn" /\ use_memory /\ Len(memory) >= min_memory_size)
        => /\ batch_size <= Len(memory)
           /\ outcome # "ValueError"

----------------------------------------------------------------------------
(* Claims about the targets (SpecTarget) *)

\* The transitions the last learn call fitted, one per row of its update.
FittedRows(usemem, b, a) == IF usemem THEN b ELSE << a.t >>

IsMaxOf(m, row) ==
    /\ \E j \in 1..Len(row) : row[j] = m
    /\ \A j \in 1..Len(row) : row[j] <= m

NextRow(net, t) == net[IF t[4] = NoneState THEN ZeroState ELSE t[4]]

\* C5: for a transition with done true, on both learn paths, the target row
\* handed to the backend update is the backend's output for the state before
\* the call with the entry of the action replaced by the reward, whatever
\* gamma is.
C5_TerminalTarget ==
    [][ (op' = "learn" /\ outcome' = "return" /\ calls' # <<>>)
        => LET upd == calls'[Len(calls')]
               rows == FittedRows(use_memory, batch', arg')
           IN  /\ upd.f = "update"
               /\ Len(upd.x) = Len(rows)
               /\ Len(upd.y) = Len(rows)
               /\ \A i \in 1..Len(rows) :
                      rows[i][5] =>
                          /\ upd.x[i] = rows[i][1]
                          /\ \A k \in 1..action_size :
                                 upd.y[i][k] = IF k = rows[i][2] + 1
                                               THEN rows[i][3]
                                               ELSE dnn[rows[i][1]][k] ]_vars

C5_Witness ==
    /\ op = "learn"
    /\ use_memory
    /\ outcome = "return"
    /\ Len(batch) >= 2
    /\ gamma > 0
    /\ \E i \in 1..Len(batch) : batch[i][5] /\ batch[i][4] # NoneState
    /\ \E i \in 1..Len(batch) : ~batch[i][5]
    /\ calls # <<>>

\* C6: for a transition with done false, on both learn paths, the target
\* entry of the action is reward + gamma * (the largest output for the
\* transition's own next state, before the call), and every other entry is
\* the output for the state before the call.
C6_NonTerminalTarget ==
    [][ (op' = "learn" /\ outcome' = "return" /\ calls' # <<>>)
        => LET upd == calls'[Len(calls')]
               rows == FittedRows(use_memory, batch', arg')
           IN  /\ upd.f = "update"
               /\ Len(upd.y) = Len(rows)
               /\ \A i \in 1..Len(rows) :
                      ~rows[i][5] =>
                          /\ upd.x[i] = rows[i][1]
                          /\ \E j \in 1..action_size :
                                 LET m == NextRow(dnn, rows[i])[j]
                                 IN  /\ IsMaxOf(m, NextRow(dnn, rows[i]))
                                     /\ upd.y[i][rows[i][2] + 1] = rows[i][3] + gamma * m
                          /\ \A k \in 1..action_size :
                                 k # rows[i][2] + 1 => upd.y[i][k] = dnn[rows[i][1]][k] ]_vars

C6_Witness ==
    /\ op = "learn"
    /\ ~use_memory
    /\ outcome = "return"
    /\ gamma > 1
    /\ ~arg.t[5]
    /\ arg.t[4] # arg.t[1]
    /\ Len(calls) = 3

----------------------------------------------------------------------------
(* The selection specification: a driver that observes one state and one   *)
(* set of excluded actions, and asks for actions again and again.          *)

InitSelect ==
    /\ use_memory = TRUE
    /\ memory_maxlen = MaxMem
    /\ min_memory_size = 1
    /\ batch_size = 1
    /\ gamma = 1
    /\ per_episode_epsilon_decay = FALSE
    /\ epsilon_linear_decay = FALSE
    /\ memory = << <<0, 0, 0, 1, FALSE>>, <<1, 0, 1, NoneState, TRUE>> >>
    /\ dnn \in { InitNet(bias) : bias \in QRows }
    /\ epsilon_greedy \in {epsilon_min, epsilon_start}
    /\ observation \in States
    /\ excluded_actions \in SUBSET Actions
    /\ KilledUnitsReward_init
    /\ op = "init"
    /\ arg = NoArg
    /\ outcome = "return"
    /\ ret = NoValue
    /\ calls = <<>>
    /\ batch = <<>>
    /\ history = memory

Predict ==
    /\ op' = "predict"
    /\ arg' = NoArg
    /\ exploit(observation, excluded_actions)
    /\ UNCHANGED <<reward_builder, config, memory, dnn, epsilon_greedy, observation,
                   excluded_actions, batch, history>>

ChooseAction ==
    \E is_testing \in BOOLEAN :
        choose_action(observation, excluded_actions, is_testing)

NextSelect == Predict \/ ChooseAction

SpecSelect == InitSelect /\ [][NextSelect]_vars

----------------------------------------------------------------------------
(* Claims about predict and choose_action (SpecSelect) *)

ObservedRow == dnn[observation]

Allowed == Actions \ excluded_actions

\* C7: an action predict returns is never one of the excluded actions.
C7_PredictRespectsExclusion ==
    (op = "predict" /\ outcome = "return") => ret \notin excluded_actions

C7_Witness ==
    /\ op = "predict"
    /\ outcome = "return"
    /\ Allowed # {}
    /\ \E a \in excluded_actions : \A b \in Actions : ObservedRow[b + 1] <= ObservedRow[a + 1]
    /\ ret \in Allowed

\* C8 (as claimed): whenever some action is not excluded, predict returns an
\* action; it does not raise.
C8_PredictReturns ==
    (op = "predict" /\ Allowed # {}) => (outcome = "return" /\ ret \in Actions)

\* C9 (as claimed): when some action is not excluded, an action predict
\* returns is one whose value is largest among the actions not excluded.
C9_PredictBestAllowed ==
    (op = "predict" /\ outcome = "return" /\ Allowed # {})
        => /\ ret \in Allowed
           /\ \A a \in Allowed : ObservedRow[a + 1] <= ObservedRow[ret + 1]

\* C10: with is_testing, choose_action ends exactly as predict does on the
\* same state and exclusions, whatever epsilon is and with no random draw;
\* a second such call right after the first ends the same way; and the call
\* leaves epsilon as it was.
C10_TestingIsPredict ==
    [][ (op' = "choose_action" /\ arg'.is_testing)
        => /\ outcome' = predict(observation, excluded_actions).outcome
           /\ ret' = predict(observation, excluded_actions).ret
           /\ arg'.u = NoValue
           /\ epsilon_greedy' = epsilon_greedy
           /\ (op = "choose_action" /\ arg.is_testing)
                  => (outcome' = outcome /\ ret' = ret) ]_vars

C10_Witness ==
    /\ op = "choose_action"
    /\ arg.is_testing
    /\ epsilon_greedy = epsilon_start
    /\ excluded_actions # {}
    /\ outcome = "return"
    /\ ret # argmax(ObservedRow)


----------------------------------------------------------------------------
(* The exploration specification: choose_action without is_testing, with   *)
(* the resampling loop of lines 192-197 taken one random.choice at a time. *)
(* While the loop runs, outcome is "sampling" and ret is random_action.    *)

\* Line 195: the loop is left when random_action is not excluded.
loop_exit_always(random_action, excluded) == TRUE

loop_exit(random_action, excluded) == random_action \notin excluded

InitExplore ==
    /\ use_memory = TRUE
    /\ memory_maxlen = MaxMem
    /\ min_memory_size = 1
    /\ batch_size = 1
    /\ gamma = 1
    /\ per_episode_epsilon_decay = FALSE
    /\ epsilon_linear_decay = FALSE
    /\ memory = << <<0, 0, 0, 1, FALSE>>, <<1, 0, 1, NoneState, TRUE>> >>
    /\ dnn \in { InitNet(bias) : bias \in QRows }
    /\ epsilon_greedy \in {epsilon_min, epsilon_start}
    /\ observation \in States
    /\ excluded_actions \in SUBSET Actions
    /\ KilledUnitsReward_init
    /\ op = "init"
    /\ arg = NoArg
    /\ outcome = "return"
    /\ ret = NoValue
    /\ calls = <<>>
    /\ batch = <<>>
    /\ history = memory

\* Lines 187-192 and 199: the call up to its first random.choice, or the
\* whole call when it delegates to predict.
ChooseActionStart ==
    /\ outcome # "sampling"
    /\ op' = "choose_action"
    /\ \E u \in 0..(EpsScale - 1) :
           /\ arg' = [NoArg EXCEPT !.u = u]
           /\ IF u <= epsilon_greedy
              THEN /\ calls' = <<>>
                   /\ outcome' = "sampling"
                   /\ ret' \in Actions
              ELSE exploit(observation, excluded_actions)
    /\ UNCHANGED <<reward_builder, config, memory, dnn, epsilon_greedy, observation,
                   excluded_actions, batch, history>>

\* Lines 195-196: one more random.choice
Resample ==
    /\ outcome = "sampling"
    /\ ~loop_exit(ret, excluded_actions)
    /\ ret' \in Actions
    /\ UNCHANGED <<reward_builder, config, memory, dnn, epsilon_greedy, observation,
                   excluded_actions, op, arg, outcome, calls, batch, history>>

\* Line 197: return random_action
ExploreReturn ==
    /\ outcome = "sampling"
    /\ loop_exit(ret, excluded_actions)
    /\ outcome' = "return"
    /\ UNCHANGED <<reward_builder, config, memory, dnn, epsilon_greedy, observation,
                   excluded_actions, op, arg, ret, calls, batch, history>>

NextExplore == ChooseActionStart \/ Resample \/ ExploreReturn

\* random.choice is fair: an action that can be drawn again and again is
\* drawn at some time; and a call that can return does.
FairChoice ==
    /\ WF_vars(Resample /\ ret' \notin excluded_actions)
    /\ WF_vars(ExploreReturn)

SpecExplore == InitExplore /\ [][NextExplore]_vars /\ FairChoice

InExploreBranch ==
    op = "choose_action" /\ ~arg.is_testing /\ arg.u # NoValue /\ arg.u <= epsilon_greedy

\* C11: in the exploration branch (not testing, u <= epsilon) a returned
\* action is an action of the Action Set that is not excluded, and when some
\* action is not excluded the resampling loop ends with a return.
C11_ExploreReturnsAllowed ==
    /\ [](InExploreBranch /\ outcome = "return" => ret \in Actions \ excluded_actions)
    /\ (InExploreBranch /\ outcome = "sampling" /\ Actions \ excluded_actions # {})
           ~> (InExploreBranch /\ outcome = "return")

C11_Witness ==
    /\ InExploreBranch
    /\ outcome = "return"
    /\ excluded_actions # {}
    /\ Cardinality(Actions \ excluded_actions) = 1
    /\ ret \in Actions \ excluded_actions


----------------------------------------------------------------------------
(* Claims about exhaustive exclusion (SpecSelect) *)

\* C12 (as claimed): when every action is excluded, predict and choose_action
\* (in either branch) end with an error: they neither return an action nor
\* loop for ever.
C12_ExhaustiveExclusionFails ==
    (op \in {"predict", "choose_action"} /\ Actions \subseteq excluded_actions)
        => outcome \notin {"return", "loop"}


\* With every action excluded, the resampling loop, once entered, is never left.
ExhaustiveLoopNeverExits ==
    [][ (outcome = "sampling" /\ Actions \subseteq excluded_actions)
        => outcome' = "sampling" ]_vars


----------------------------------------------------------------------------
(* The decay specification: learn calls and episode ends, in both decay    *)
(* modes and with decay per step or per episode.                           *)

\* The episode boundary: decay() once when decay is per episode.
ep_reset ==
    /\ op' = "ep_reset"
    /\ arg' = NoArg
    /\ outcome' = "return"
    /\ ret' = NoValue
    /\ calls' = <<>>
    /\ batch' = <<>>
    /\ epsilon_greedy' =
           IF per_episode_epsilon_decay
           THEN decay_epsilon(epsilon_greedy)
           ELSE epsilon_greedy
    /\ UNCHANGED <<reward_builder, config, memory, dnn, observation, excluded_actions, history>>

InitDecay ==
    /\ use_memory \in BOOLEAN
    /\ IF use_memory
       THEN /\ memory_maxlen = MaxMem
            /\ min_memory_size = MaxBatch
            /\ batch_size = MaxBatch
       ELSE /\ memory_maxlen = 0
            /\ min_memory_size = 0
            /\ batch_size = 1
    /\ gamma = 1
    /\ per_episode_epsilon_decay \in BOOLEAN
    /\ epsilon_linear_decay \in BOOLEAN
    /\ memory = <<>>
    /\ dnn = InitNet(ZeroRow)
    /\ epsilon_greedy = epsilon_start
    /\ observation = ZeroState
    /\ excluded_actions = {}
    /\ KilledUnitsReward_init
    /\ op = "init"
    /\ arg = NoArg
    /\ outcome = "return"
    /\ ret = NoValue
    /\ calls = <<>>
    /\ batch = <<>>
    /\ history = <<>>

EpisodeEnd == ep_reset

NextDecay == Learn \/ EpisodeEnd

SpecDecay == InitDecay /\ [][NextDecay]_vars

\* C13: over every sequence of decay calls, in either mode and from learn
\* or from the episode end, epsilon never increases and never drops below
\* epsilon_min; once at epsilon_min it stays there.
C13_EpsilonMonotoneAboveMin ==
    [][ /\ epsilon_greedy' <= epsilon_greedy
        /\ epsilon_greedy' >= epsilon_min
        /\ (epsilon_greedy = epsilon_min => epsilon_greedy' = epsilon_min) ]_vars

C13_Witness ==
    /\ epsilon_linear_decay
    /\ ~per_episode_epsilon_decay
    /\ op = "learn"
    /\ outcome = "return"
    /\ Len(history) = 4
    /\ epsilon_greedy = epsilon_min


----------------------------------------------------------------------------
(* Claims about sampling (Spec) *)

\* C14: sampling batch_size transitions from a memory that holds fewer
\* fails with an error: no batch is returned, the backend is not called and
\* its parameters stay as they were; a batch that is fitted is never short.
C14_ShortMemorySampleFails ==
    [][ /\ (op' = "learn" /\ use_memory /\ Len(memory') >= min_memory_size
                /\ Len(memory') < batch_size)
            => /\ outcome' = "ValueError"
               /\ batch' = <<>>
               /\ calls' = <<>>
               /\ dnn' = dnn
        /\ (op' = "learn" /\ use_memory /\ calls' # <<>>)
            => Len(batch') = batch_size ]_vars

C14_Witness ==
    /\ op = "learn"
    /\ use_memory
    /\ memory # <<>>
    /\ Len(memory) >= min_memory_size
    /\ Len(memory) < batch_size
    /\ outcome = "ValueError"

\* C15: a batch fitted by a memory update holds exactly batch_size
\* transitions, taken from batch_size distinct positions of the memory as it
\* is after the store.
C15_BatchFromDistinctPositions ==
    (op = "learn" /\ use_memory /\ calls # <<>>)
        => /\ Len(batch) = batch_size
           /\ \E pos \in [1..batch_size -> 1..Len(memory)] :
                  /\ \A i, j \in 1..batch_size : i # j => pos[i] # pos[j]
                  /\ \A i \in 1..batch_size : batch[i] = memory[pos[i]]
           /\ calls[Len(calls)].f = "update"
           /\ calls[Len(calls)].x = [i \in 1..batch_size |-> batch[i][1]]

C15_Witness ==
    /\ op = "learn"
    /\ use_memory
    /\ calls # <<>>
    /\ batch_size = 2
    /\ Len(memory) = 3
    /\ batch[1] = memory[3]
    /\ batch[2] = memory[1]
    /\ memory[1] # memory[2]
    /\ memory[1] # memory[3]


----------------------------------------------------------------------------
(* Claims about the zero-vector placeholder (SpecTarget) *)

\* The target row of batch row t when the backend's output for the row's
\* next state is q_next.
RowTarget(net, t, q_next) == target_q(net[t[1]], t[2], t[3], t[5], q_next)

\* C16 (as claimed): for a batch row whose next_state is None, the target
\* row is the same whatever the backend's output for the zero-vector
\* placeholder in the next-state evaluation is.
C16_PlaceholderNeverUsed ==
    [][ (op' = "learn" /\ use_memory /\ outcome' = "return" /\ calls' # <<>>)
        => \A i \in 1..Len(batch') :
               batch'[i][4] = NoneState
                   => \A z \in QRows :
                          calls'[Len(calls')].y[i] = RowTarget(dnn, batch'[i], z) ]_vars

\* What the code does keep: a row with done true ignores the placeholder.
PlaceholderUnusedWhenDone ==
    [][ (op' = "learn" /\ use_memory /\ outcome' = "return" /\ calls' # <<>>)
        => \A i \in 1..Len(batch') :
               (batch'[i][4] = NoneState /\ batch'[i][5])
                   => \A z \in QRows :
                          calls'[Len(calls')].y[i] = RowTarget(dnn, batch'[i], z) ]_vars


----------------------------------------------------------------------------
(* Claims about learn and the exploration schedule (Spec) *)

\* C17 (as claimed): every learn call advances epsilon by exactly one decay
\* step when decay is per step, gate closed or not, and leaves epsilon as it
\* was when decay is per episode.
C17_LearnDecaysOnce ==
    [][ op' = "learn"
        => epsilon_greedy' = IF per_episode_epsilon_decay
                             THEN epsilon_greedy
                             ELSE decay_epsilon(epsilon_greedy) ]_vars

\* What the code does keep: a learn call that returns decays once per step.
ReturningLearnDecaysOnce ==
    [][ (op' = "learn" /\ outcome' = "return")
        => epsilon_greedy' = IF per_episode_epsilon_decay
                             THEN epsilon_greedy
                             ELSE decay_epsilon(epsilon_greedy) ]_vars


\* The positions of `cs` that are backend updates
UpdateCalls(cs) == {i \in 1..Len(cs) : cs[i].f = "update"}

\* C18: with use_memory false, every learn call returns after exactly one
\* backend update, made inside the call on the one supplied state, and the
\* object has no experience memory before or after.
C18_NoMemoryLearnUpdatesOnce ==
    [][ (op' = "learn" /\ ~use_memory)
        => /\ outcome' = "return"
           /\ Cardinality(UpdateCalls(calls')) = 1
           /\ calls'[Len(calls')].f = "update"
           /\ calls'[Len(calls')].x = << arg'.t[1] >>
           /\ dnn' = update(dnn, << arg'.t[1] >>, calls'[Len(calls')].y)
           /\ memory = <<>>
           /\ memory' = <<>>
           /\ batch' = <<>> ]_vars

\* What the code does keep: a learn call without memory that is handed a
\* next state, or done, makes exactly one update, the last thing it does.
NoMemoryLearnUpdatesOnceGivenNextState ==
    [][ (op' = "learn" /\ ~use_memory
            /\ (arg'.t[5] \/ arg'.t[4] # NoneState))
        => /\ outcome' = "return"
           /\ Cardinality(UpdateCalls(calls')) = 1
           /\ calls'[Len(calls')].f = "update"
           /\ calls'[Len(calls')].x = << arg'.t[1] >>
           /\ memory' = <<>>
           /\ batch' = <<>> ]_vars

\* Without a next state and with done false the call hands None to the
\* backend and ends there: no update, parameters as they were.
NoMemoryLearnWithoutNextStateMakesNoUpdate ==
    [][ (op' = "learn" /\ ~use_memory
            /\ ~arg'.t[5] /\ arg'.t[4] = NoneState)
        => /\ outcome' = "BackendError"
           /\ UpdateCalls(calls') = {}
           /\ dnn' = dnn
           /\ epsilon_greedy' = epsilon_greedy ]_vars

C18_Witness ==
    /\ op = "learn"
    /\ ~use_memory
    /\ Len(history) = MaxLearn
    /\ arg.t[5]
    /\ UpdateCalls(calls) = {2}
    /\ memory = <<>>


----------------------------------------------------------------------------
(* Claims about what action selection leaves alone (SpecSelect) *)

\* C19: predict and choose_action, on every branch (testing, exploiting,
\* exploring, raising), leave the experience memory, the backend parameters,
\* the caller's excluded_actions (the empty default included) and the
\* constructor's settings as they were; the action set is the constant
\* Actions.
C19_SelectionIsReadOnly ==
    [][ op' \in {"predict", "choose_action"}
        => /\ memory' = memory
           /\ dnn' = dnn
           /\ excluded_actions' = excluded_actions
           /\ config' = config
           /\ epsilon_greedy' = epsilon_greedy ]_vars

C19_Witness ==
    /\ op = "choose_action"
    /\ ~arg.is_testing
    /\ arg.u <= epsilon_greedy
    /\ outcome = "return"
    /\ excluded_actions = {0}
    /\ ret = 1
    /\ memory # <<>>

C19_WitnessDefaultExcluded ==
    /\ op = "predict"
    /\ outcome = "return"
    /\ excluded_actions = {}

----------------------------------------------------------------------------
(* Claims about the gate over a run of learn calls (Spec) *)

\* C20: with use_memory true, a learn call that follows one which made a
\* backend update makes exactly one backend update itself, and no learn call
\* shortens the memory, so an open gate stays open.
C20_GateStaysOpen ==
    [][ (op' = "learn" /\ use_memory)
        => /\ Len(memory') >= Len(memory)
           /\ (Len(memory) >= min_memory_size
                   => Len(memory') >= min_memory_size)
           /\ (op = "learn" /\ UpdateCalls(calls) # {})
                   => /\ outcome' = "return"
                      /\ Cardinality(UpdateCalls(calls')) = 1 ]_vars

C20_Witness ==
    /\ op = "learn"
    /\ use_memory
    /\ Len(history) = MaxLearn
    /\ min_memory_size = 2
    /\ memory_maxlen = 2
    /\ batch_size = 2
    /\ Cardinality(UpdateCalls(calls)) = 1


----------------------------------------------------------------------------
(* Whether learning starts (Spec with a caller that keeps calling learn) *)

\* A learn call has made a backend update
LearningStarted == op = "learn" /\ UpdateCalls(calls) # {}

\* The latest MaxLearn entries of h
Latest(h) == IF Len(h) > MaxLearn THEN Tail(h) ELSE h

\* The caller calls learn again and again, without end, until a call has
\* made a backend update; history keeps the latest MaxLearn transitions.
LearnOn ==
    /\ ~LearningStarted
    /\ \E t \in DriverTransitions :
           /\ learn_call(t[1], t[2], t[3], t[4], t[5])
           /\ history' = Latest(Append(history, t))

NextLive == LearnOn

\* The caller keeps calling learn.
FairLearn == WF_vars(LearnOn)

SpecLive == Init /\ [][NextLive]_vars /\ FairLearn

\* C21 (as claimed): with use_memory true, whatever memory_maxlen,
\* min_memory_size and batch_size are, some learn call eventually finds the
\* memory at min_memory_size and makes a backend update.
C21_LearningEventuallyStarts ==
    use_memory ~> (LearningStarted /\ Len(memory) >= min_memory_size)

\* What the code does keep: learning starts when the memory can hold both
\* min_memory_size and batch_size transitions.
LearningStartsWhenMemoryFits ==
    (use_memory /\ min_memory_size <= memory_maxlen
                /\ batch_size <= memory_maxlen)
        ~> (LearningStarted /\ Len(memory) >= min_memory_size)

\* A memory that cannot hold min_memory_size or batch_size transitions never
\* lets a learn call reach the backend update, however many calls are made.
LearningNeverStartsWhenMemoryTooSmall ==
    (use_memory /\ (memory_maxlen < min_memory_size
                    \/ memory_maxlen < batch_size))
        => ~LearningStarted


----------------------------------------------------------------------------
(* The reward specification: an environment handing observations to       *)
(* KilledUnitsReward.get_reward; the trainer may also call reset.          *)

InitReward ==
    /\ Init
    /\ ~use_memory
    /\ ~per_episode_epsilon_decay

GetReward ==
    \E current_killed_unit_score \in Scores,
       current_killed_building_score \in Scores,
       reward \in Rewards, done \in BOOLEAN :
        get_reward(current_killed_unit_score, current_killed_building_score,
                   reward, done)

Reset ==
    /\ op' = "reset"
    /\ arg' = NoArg
    /\ outcome' = "return"
    /\ ret' = NoValue
    /\ reset
    /\ UNCHANGED <<config, memory, dnn, epsilon_greedy, observation,
                   excluded_actions, calls, batch, history>>

NextReward == GetReward \/ Reset

SpecReward == InitReward /\ [][NextReward]_vars

\* C22: after a get_reward call with done true both stored scores are 0;
\* after a call with done false they are the scores of the observation just
\* processed; the returned reward is in {0, 1, 2, 3}, with 1 in it exactly
\* when the unit score rose above the stored one and 2 in it exactly when
\* the building score rose above the stored one.
C22_KilledUnitsReward ==
    [][ op' = "get_reward"
        => LET unit == arg'.t[1]
               building == arg'.t[2]
               done == arg'.t[4]
               unit_up == unit > _previous_killed_unit_score
               building_up == building > _previous_killed_building_score
           IN  /\ done => /\ _previous_killed_unit_score' = 0
                          /\ _previous_killed_building_score' = 0
               /\ ~done => /\ _previous_killed_unit_score' = unit
                           /\ _previous_killed_building_score' = building
               /\ ret' \in {0, 1, 2, 3}
               /\ (ret' \in {1, 3}) <=> unit_up
               /\ (ret' \in {2, 3}) <=> building_up ]_vars

\* An episode's last call has rewarded both scores and reset them although
\* the observation's scores were positive.
C22_Witness ==
    /\ op = "get_reward"
    /\ arg.t[4]
    /\ arg.t[1] = MaxScore
    /\ arg.t[2] = MaxScore
    /\ ret = 3
    /\ _previous_killed_unit_score = 0
    /\ _previous_killed_building_score = 0

\* The first reward of the next episode is computed against 0: a call that
\* follows a done call rewards every positive score.
FirstRewardAfterDoneAgainstZero ==
    [][ (op = "get_reward" /\ arg.t[4] /\ op' = "get_reward")
        => ret' = (IF arg'.t[1] > 0 THEN 1 ELSE 0)
                  + (IF arg'.t[2] > 0 THEN 2 ELSE 0) ]_vars


----------------------------------------------------------------------------
(* The public-interface specification: besides learn, a caller may call    *)
(* memorize, memory_learn and no_memory_learn directly (none of them       *)
(* decays epsilon), end an episode, and save or load the backend.          *)

\* The number of transitions the caller hands over in this specification
MaxCalls == 3

CallsLeft == Len(history) < MaxCalls

\* The parameters a checkpoint may hold
Checkpoints == { InitNet(ZeroRow), InitNet(OneHot(action_size)) }

\* Line 215 on an object built with use_memory false: self.memory was never
\* created (lines 111-113), so naming it raises AttributeError.
no_memory_attribute ==
    /\ outcome' = "AttributeError"
    /\ calls' = <<>>
    /\ batch' = <<>>
    /\ UNCHANGED <<memory, dnn>>

\* memorize(state, action, reward, next_state, done) called directly
Memorize ==
    /\ CallsLeft
    /\ \E t \in DriverTransitions :
           /\ op' = "memorize"
           /\ arg' = [NoArg EXCEPT !.t = t]
           /\ ret' = NoValue
           /\ history' = Append(history, t)
           /\ IF use_memory
              THEN /\ memory' = memorize(memory, t)
                   /\ outcome' = "return"
                   /\ calls' = <<>>
                   /\ batch' = <<>>
                   /\ dnn' = dnn
              ELSE no_memory_attribute
    /\ UNCHANGED <<reward_builder, config, epsilon_greedy, observation,
                   excluded_actions>>

\* memory_learn(s, a, r, s_, done) called directly
MemoryLearn ==
    /\ CallsLeft
    /\ \E t \in DriverTransitions :
           /\ op' = "memory_learn"
           /\ arg' = [NoArg EXCEPT !.t = t]
           /\ ret' = NoValue
           /\ history' = Append(history, t)
           /\ IF use_memory
              THEN memory_learn(t[1], t[2], t[3], t[4], t[5])
              ELSE no_memory_attribute
    /\ UNCHANGED <<reward_builder, config, epsilon_greedy, observation,
                   excluded_actions>>

\* no_memory_learn(s, a, r, s_, done) called directly
NoMemoryLearn ==
    /\ CallsLeft
    /\ \E t \in DriverTransitions :
           /\ op' = "no_memory_learn"
           /\ arg' = [NoArg EXCEPT !.t = t]
           /\ ret' = NoValue
           /\ history' = Append(history, t)
           /\ no_memory_learn(t[1], t[2], t[3], t[4], t[5])
    /\ UNCHANGED <<reward_builder, config, epsilon_greedy, observation,
                   excluded_actions>>

\* save_extra(persist_path): self.dnn.save writes the parameters out
save_extra ==
    /\ op' = "save_extra"
    /\ arg' = NoArg
    /\ ret' = NoValue
    /\ outcome' = "return"
    /\ calls' = <<>>
    /\ batch' = <<>>
    /\ UNCHANGED <<reward_builder, config, memory, dnn, epsilon_greedy,
                   observation, excluded_actions, history>>

\* load_extra(persist_path): self.dnn.load puts the checkpoint's parameters
\* in place of the backend's
load_extra(checkpoint) ==
    /\ op' = "load_extra"
    /\ arg' = NoArg
    /\ ret' = NoValue
    /\ outcome' = "return"
    /\ calls' = <<>>
    /\ batch' = <<>>
    /\ dnn' = checkpoint
    /\ UNCHANGED <<reward_builder, config, memory, epsilon_greedy,
                   observation, excluded_actions, history>>

SaveExtra == save_extra

LoadExtra == \E checkpoint \in Checkpoints : load_extra(checkpoint)

PublicLearn == CallsLeft /\ Learn

NextPublic ==
    \/ PublicLearn
    \/ Memorize
    \/ MemoryLearn
    \/ NoMemoryLearn
    \/ EpisodeEnd
    \/ SaveExtra
    \/ LoadExtra

\* A memory that fits the gate and the batch, or no memory at all
InitPublic ==
    /\ Init
    /\ use_memory => /\ memory_maxlen = MaxMem - 1
                     /\ min_memory_size = MaxBatch
                     /\ batch_size = MaxBatch

SpecPublic == InitPublic /\ [][NextPublic]_vars


\* Calls made directly to memorize, memory_learn and no_memory_learn, and
\* save_extra and load_extra, leave epsilon as it was: only learn and the
\* end of an episode advance the schedule.
DirectCallsKeepEpsilon ==
    [][ op' \in {"memorize", "memory_learn", "no_memory_learn",
                 "save_extra", "load_extra"}
        => epsilon_greedy' = epsilon_greedy ]_vars

\* No public call shortens the memory, and only load_extra, learn,
\* memory_learn and no_memory_learn change the backend's parameters.
MemoryNeverShrinks ==
    [][ /\ Len(memory') >= Len(memory)
        /\ dnn' # dnn => op' \in {"learn", "memory_learn", "no_memory_learn",
                                  "load_extra"} ]_vars

\* A checkpoint has replaced parameters that learning had changed, and the
\* memory and epsilon are as they were.
LoadExtraWitness ==
    /\ op = "load_extra"
    /\ dnn = InitNet(OneHot(action_size))
    /\ memory # <<>>
    /\ epsilon_greedy < epsilon_start

====
